---------------------------- MODULE Spec2Model ----------------------------
(***************************************************************************)
(* A model of the Pusher Beams Go server SDK (package pushnotifications):  *)
(* the client constructor New and its options, the input validation of     *)
(* PublishToInterests / Publish / PublishToUsers / DeleteUser /            *)
(* GenerateToken, the injection of the identifier list into the caller's   *)
(* request map, the HTTP request that is issued and the classification of  *)
(* the response.                                                           *)
(*                                                                         *)
(* Go strings are sequences of bytes (0..255): len() counts bytes, the     *)
(* interest regexp and utf8.ValidString read those bytes.  Identifiers of  *)
(* the configuration (instance id, secret key) are TLA+ strings.           *)
(* Durations and clock readings are in seconds.                            *)
(***************************************************************************)
EXTENDS Integers, Sequences, FiniteSets, TLC

VARIABLES
    pn,       \* the client returned by New (a *pushNotifications), or NoClient
    newCall,  \* the arguments and the returned error of the last call of New
    heap,     \* the caller-owned request maps, by reference
    call      \* per calling goroutine: the operation in progress and its result

vars == <<pn, newCall, heap, call>>

----------------------------------------------------------------------------
(* Bounds of the model *)

\* Sizes and lengths are explored from limit - Slack to limit + Slack.
Slack == 1
\* Byte strings over ProbeBytes are enumerated up to this length.
MaxShort == 2
\* A probed element is preceded by up to MaxPad valid elements.
MaxPad == 2

----------------------------------------------------------------------------
(* Program constants *)

maxUserIdLength == 164
maxNumUserIdsWhenPublishing == 1000
maxInterests == 100
maxInterestLength == 164
\* time.Minute and 24 * time.Hour, in seconds
defaultRequestTimeout == 60
tokenTTL == 86400
StatusOK == 200

sdkVersion == "sdkVersion"

----------------------------------------------------------------------------
(* Byte strings *)

Rep(x, n) == [i \in 1..n |-> x]

Min(S) == CHOOSE x \in S : \A y \in S : x <= y

\* [a-zA-Z0-9_\-=@,.;] : the character class of interestValidationRegex
interestValidationClass ==
    (97..122) \cup (65..90) \cup (48..57) \cup {95, 45, 61, 64, 44, 46, 59}

\* interestValidationRegex.MatchString(s) for ^[class]+$ : Go's $ (no flag m)
\* matches at the end of the text only, and a byte >= 0x80 decodes to a rune
\* outside the class, so the match is: at least one byte, every byte in the class.
\* (variant: the expression without its closing $)
interestValidationRegexUnanchored(s) ==
    /\ Len(s) >= 1
    /\ s[1] \in interestValidationClass

interestValidationRegexMatchString(s) ==
    /\ Len(s) >= 1
    /\ \A i \in 1..Len(s) : s[i] \in interestValidationClass

\* The width (1..4) of the UTF-8 encoding that starts at s[i], 0 when the bytes
\* there are not a valid encoding (unicode/utf8: first[] and acceptRanges[]).
Cont(s, i, lo, hi) == i <= Len(s) /\ s[i] >= lo /\ s[i] <= hi

RuneWidth(s, i) ==
    LET b == s[i] IN
    IF b < 128 THEN 1
    ELSE IF b >= 194 /\ b <= 223
         THEN IF Cont(s, i + 1, 128, 191) THEN 2 ELSE 0
    ELSE IF b = 224
         THEN IF Cont(s, i + 1, 160, 191) /\ Cont(s, i + 2, 128, 191) THEN 3 ELSE 0
    ELSE IF b = 237
         THEN IF Cont(s, i + 1, 128, 159) /\ Cont(s, i + 2, 128, 191) THEN 3 ELSE 0
    ELSE IF b >= 225 /\ b <= 239
         THEN IF Cont(s, i + 1, 128, 191) /\ Cont(s, i + 2, 128, 191) THEN 3 ELSE 0
    ELSE IF b = 240
         THEN IF Cont(s, i + 1, 144, 191) /\ Cont(s, i + 2, 128, 191)
                 /\ Cont(s, i + 3, 128, 191) THEN 4 ELSE 0
    ELSE IF b >= 241 /\ b <= 243
         THEN IF Cont(s, i + 1, 128, 191) /\ Cont(s, i + 2, 128, 191)
                 /\ Cont(s, i + 3, 128, 191) THEN 4 ELSE 0
    ELSE IF b = 244
         THEN IF Cont(s, i + 1, 128, 143) /\ Cont(s, i + 2, 128, 191)
                 /\ Cont(s, i + 3, 128, 191) THEN 4 ELSE 0
    ELSE 0

\* A byte is inside a valid encoding when an encoding that starts at most three
\* bytes before it is valid and covers it.  An ASCII byte and a valid lead byte
\* are never continuation bytes, so the string is valid UTF-8 exactly when every
\* byte either starts a valid encoding or is a continuation byte covered by the
\* valid encoding whose lead byte is the nearest non-continuation byte before it.
IsCont(b) == b >= 128 /\ b <= 191

LeadOf(s, i) ==
    IF ~IsCont(s[i]) THEN i
    ELSE IF i >= 2 /\ ~IsCont(s[i - 1]) THEN i - 1
    ELSE IF i >= 3 /\ ~IsCont(s[i - 2]) THEN i - 2
    ELSE IF i >= 4 /\ ~IsCont(s[i - 3]) THEN i - 3
    ELSE 0

\* Whether byte i of s is part of a valid encoding.
WellEncoded(s, i) ==
    LET l == LeadOf(s, i) IN l # 0 /\ RuneWidth(s, l) > i - l

utf8ValidString(s) == \A i \in 1..Len(s) : WellEncoded(s, i)

\* encoding/json writes a string with every byte that is not part of a valid
\* encoding replaced by U+FFFD; the result is given here as the decoded text,
\* one element per kept byte and 65533 for each replaced byte.
jsonString(s) == [i \in 1..Len(s) |-> IF WellEncoded(s, i) THEN s[i] ELSE 65533]

----------------------------------------------------------------------------
(* Errors: the message format of errors.New / errors.Errorf / fmt.Sprintf     *)
(* with its arguments (byte strings, then numbers), and for errors.Wrap and   *)
(* for the remote error the text of the wrapped cause.                        *)

Err(msg, strs, nums, cause) ==
    [msg |-> msg, strs |-> strs, nums |-> nums, cause |-> cause]

\* the nil error
NoErr == Err("", <<>>, <<>>, <<>>)

----------------------------------------------------------------------------
(* Validation of PublishToInterests (lines 295-323) *)

\* (variant: the expression is matched before the length is checked)
interestErrorRegexFirst(interest) ==
    IF Len(interest) = 0
    THEN Err("An empty interest name is not valid", <<>>, <<>>, <<>>)
    ELSE IF ~interestValidationRegexMatchString(interest)
    THEN Err("Interest %s contains an forbidden character: Allowed characters are: ASCII upper/lower-case letters, numbers or one of _-=@,.:",
             <<interest>>, <<>>, <<>>)
    ELSE IF Len(interest) > maxInterestLength
    THEN Err("Interest length is %d which is over 164 characters",
             <<>>, <<Len(interest)>>, <<>>)
    ELSE NoErr

\* (variant: >= in the length check)
interestErrorLengthAtLeast(interest) ==
    IF Len(interest) = 0
    THEN Err("An empty interest name is not valid", <<>>, <<>>, <<>>)
    ELSE IF Len(interest) >= maxInterestLength
    THEN Err("Interest length is %d which is over 164 characters",
             <<>>, <<Len(interest)>>, <<>>)
    ELSE IF ~interestValidationRegexMatchString(interest)
    THEN Err("Interest %s contains an forbidden character: Allowed characters are: ASCII upper/lower-case letters, numbers or one of _-=@,.:",
             <<interest>>, <<>>, <<>>)
    ELSE NoErr

\* The body of the loop over interests: the error one interest returns
\* (the last message is written without the back quotes the source puts around %s).
interestError(interest) ==
    IF Len(interest) = 0
    THEN Err("An empty interest name is not valid", <<>>, <<>>, <<>>)
    ELSE IF Len(interest) > maxInterestLength
    THEN Err("Interest length is %d which is over 164 characters",
             <<>>, <<Len(interest)>>, <<>>)
    ELSE IF ~interestValidationRegexMatchString(interest)
    THEN Err("Interest %s contains an forbidden character: Allowed characters are: ASCII upper/lower-case letters, numbers or one of _-=@,.:",
             <<interest>>, <<>>, <<>>)
    ELSE NoErr

\* The loop returns at the first interest, in list order, that has an error.
interestsLoop(interests) ==
    LET bad == {i \in 1..Len(interests) : interestError(interests[i]) # NoErr}
    IN IF bad = {} THEN NoErr ELSE interestError(interests[Min(bad)])

\* (variant: the loop over the interests left out)
interestsValidationCountOnly(interests) ==
    IF Len(interests) = 0
    THEN Err("No interests were supplied", <<>>, <<>>, <<>>)
    ELSE IF Len(interests) > maxInterests
    THEN Err("Too many interests supplied (%d): API only supports up to 100",
             <<>>, <<Len(interests)>>, <<>>)
    ELSE NoErr

\* (variant: >= in the check of the count)
interestsValidationAtLeast(interests) ==
    IF Len(interests) = 0
    THEN Err("No interests were supplied", <<>>, <<>>, <<>>)
    ELSE IF Len(interests) >= maxInterests
    THEN Err("Too many interests supplied (%d): API only supports up to 100",
             <<>>, <<Len(interests)>>, <<>>)
    ELSE interestsLoop(interests)

interestsValidation(interests) ==
    IF Len(interests) = 0
    THEN Err("No interests were supplied", <<>>, <<>>, <<>>)
    ELSE IF Len(interests) > maxInterests
    THEN Err("Too many interests supplied (%d): API only supports up to 100",
             <<>>, <<Len(interests)>>, <<>>)
    ELSE interestsLoop(interests)

----------------------------------------------------------------------------
(* Validation of PublishToUsers (lines 336-357) *)

\* (variant: the encoding is checked before the length)
userErrorUtf8First(i, userId) ==
    IF userId = <<>>
    THEN Err("Empty user ids are not valid", <<>>, <<>>, <<>>)
    ELSE IF ~utf8ValidString(userId)
    THEN Err("User Id at index %d is not valid utf8", <<>>, <<i>>, <<>>)
    ELSE IF Len(userId) > maxUserIdLength
    THEN Err("User Id ('%s') length too long (expected fewer than %d characters, got %d)",
             <<userId>>, <<maxUserIdLength, Len(userId)>>, <<>>)
    ELSE NoErr

\* The body of the loop over users, for the user id at 0-based index i.
userError(i, userId) ==
    IF userId = <<>>
    THEN Err("Empty user ids are not valid", <<>>, <<>>, <<>>)
    ELSE IF Len(userId) > maxUserIdLength
    THEN Err("User Id ('%s') length too long (expected fewer than %d characters, got %d)",
             <<userId>>, <<maxUserIdLength, Len(userId)>>, <<>>)
    ELSE IF ~utf8ValidString(userId)
    THEN Err("User Id at index %d is not valid utf8", <<>>, <<i>>, <<>>)
    ELSE NoErr

\* (variant: the index counted from 1)
usersLoopOneBased(users) ==
    LET bad == {i \in 1..Len(users) : userError(i, users[i]) # NoErr}
    IN IF bad = {} THEN NoErr ELSE userError(Min(bad), users[Min(bad)])

usersLoop(users) ==
    LET bad == {i \in 1..Len(users) : userError(i - 1, users[i]) # NoErr}
    IN IF bad = {} THEN NoErr ELSE userError(Min(bad) - 1, users[Min(bad)])

usersValidation(users) ==
    IF Len(users) = 0
    THEN Err("Must supply at least one user id", <<>>, <<>>, <<>>)
    ELSE IF Len(users) > maxNumUserIdsWhenPublishing
    THEN Err("Too many user ids supplied. API supports up to %d, got %d",
             <<>>, <<maxNumUserIdsWhenPublishing, Len(users)>>, <<>>)
    ELSE usersLoop(users)

----------------------------------------------------------------------------
(* Validation of DeleteUser (lines 412-424) and GenerateToken (lines 261-269) *)

deleteUserValidation(userId) ==
    IF Len(userId) = 0
    THEN Err("User Id cannot be empty", <<>>, <<>>, <<>>)
    ELSE IF Len(userId) > maxUserIdLength
    THEN Err("User Id ('%s') length too long (expected fewer than %d characters, got %d)",
             <<userId>>, <<maxUserIdLength + 1, Len(userId)>>, <<>>)
    ELSE IF ~utf8ValidString(userId)
    THEN Err("User Id must be encoded using utf8", <<>>, <<>>, <<>>)
    ELSE NoErr

generateTokenValidation(userId) ==
    IF Len(userId) = 0
    THEN Err("User Id cannot be empty", <<>>, <<>>, <<>>)
    ELSE IF Len(userId) > maxUserIdLength
    THEN Err("User Id ('%s') length too long (expected fewer than %d characters, got %d)",
             <<userId>>, <<maxUserIdLength + 1, Len(userId)>>, <<>>)
    ELSE NoErr

----------------------------------------------------------------------------
(* Text with format verbs: a sequence of pieces.  A piece is a literal text   *)
(* without '%', or one of "%s" (the verb), "%2F" (in a URL the escape of '/';  *)
(* in a format the verb F with width 2) and "%%41" (in a format a literal '%'  *)
(* followed by 41; in a URL a '%' that starts no escape).                      *)

RECURSIVE Sprintf(_, _)
\* fmt.Sprintf(format, args...) with string arguments, each argument given as
\* its pieces: the pieces of the result.  A verb without an argument is written
\* %!verb(MISSING), the verb F applied to a string %!F(string=...), arguments
\* left over %!(EXTRA string=...).
Sprintf(format, args) ==
    IF format = <<>>
    THEN IF args = <<>> THEN <<>> ELSE <<"%!(EXTRA string=">> \o Head(args) \o <<")">>
    ELSE IF Head(format) = "%s"
    THEN IF args = <<>>
         THEN <<"%!s(MISSING)">> \o Sprintf(Tail(format), args)
         ELSE Head(args) \o Sprintf(Tail(format), Tail(args))
    ELSE IF Head(format) = "%2F"
    THEN IF args = <<>>
         THEN <<"%!F(MISSING)">> \o Sprintf(Tail(format), args)
         ELSE <<"%!F(string=">> \o Head(args) \o <<")">> \o Sprintf(Tail(format), Tail(args))
    ELSE IF Head(format) = "%%41"
    THEN <<"%41">> \o Sprintf(Tail(format), args)
    ELSE <<Head(format)>> \o Sprintf(Tail(format), args)

RECURSIVE Text(_)
\* The pieces joined into one string.
Text(pieces) == IF pieces = <<>> THEN "" ELSE Head(pieces) \o Text(Tail(pieces))

\* net/url.Parse, called by http.NewRequest, rejects a '%' that is not followed
\* by two hexadecimal digits.
urlParse(url) ==
    \A i \in 1..Len(url) :
        url[i] \notin {"%s", "%%41", "%!s(MISSING)", "%!F(MISSING)", "%!F(string=",
                       "%!(EXTRA string="}

defaultBaseEndpointFormat == <<"https://", "%s", ".pushnotifications.pusher.com">>

----------------------------------------------------------------------------
(* The client and its options (options.go, New)                             *)

NoClient == [nil |-> TRUE]

WithRequestTimeout(timeout) == [opt |-> "WithRequestTimeout", timeout |-> timeout, url |-> <<>>]
WithCustomBaseURL(url) == [opt |-> "WithCustomBaseURL", timeout |-> 0, url |-> url]

\* option(pn): what the closure an option returns does to the client
applyOption(option, c) ==
    IF option.opt = "WithRequestTimeout"
    THEN [c EXCEPT !.Timeout = option.timeout]
    ELSE [c EXCEPT !.baseEndpoint = option.url]

RECURSIVE applyOptionsFirstWins(_, _)
\* (variant: the options applied from the last to the first)
applyOptionsFirstWins(options, c) ==
    IF options = <<>> THEN c
    ELSE applyOption(Head(options), applyOptionsFirstWins(Tail(options), c))

RECURSIVE applyOptions(_, _)
\* for _, option := range options { option(pn) }
applyOptions(options, c) ==
    IF options = <<>> THEN c
    ELSE applyOptions(Tail(options), applyOption(Head(options), c))

\* (variant: the check of the secret key left out)
newErrorInstanceIdOnly(instanceId, secretKey) ==
    IF instanceId = ""
    THEN Err("Instance Id cannot be an empty string", <<>>, <<>>, <<>>)
    ELSE NoErr

\* The error New returns.
newError(instanceId, secretKey) ==
    IF instanceId = ""
    THEN Err("Instance Id cannot be an empty string", <<>>, <<>>, <<>>)
    ELSE IF secretKey = ""
    THEN Err("Secret Key cannot be an empty string", <<>>, <<>>, <<>>)
    ELSE NoErr

\* The client New returns.
newClient(instanceId, secretKey, options) ==
    IF newError(instanceId, secretKey) # NoErr
    THEN NoClient
    ELSE applyOptions(options,
            [InstanceId |-> instanceId,
             SecretKey |-> secretKey,
             baseEndpoint |-> Sprintf(defaultBaseEndpointFormat, << <<instanceId>> >>),
             Timeout |-> defaultRequestTimeout])

----------------------------------------------------------------------------
(* Request maps, json.Marshal of a request map                              *)

NilMap == "nil"

Val(t, v) == [t |-> t, v |-> v]

\* request[key] = value on a non-nil map
mapAssign(m, key, value) ==
    [k \in DOMAIN m \cup {key} |-> IF k = key THEN value ELSE m[k]]

\* json.Marshal writes the keys of a map in sorted order.
KeyOrder == <<"apns", "fcm", "interests", "users">>

\* json.Marshal fails on a value it cannot encode (a channel, a function).
jsonMarshalError(m) == \E k \in DOMAIN m : m[k].t = "chan"

jsonValue(x) ==
    IF x.t = "strings" THEN Val("strings", [i \in 1..Len(x.v) |-> jsonString(x.v[i])])
    ELSE x

jsonMarshal(m) ==
    LET keys == SelectSeq(KeyOrder, LAMBDA k : k \in DOMAIN m)
    IN [i \in 1..Len(keys) |-> [key |-> keys[i], value |-> jsonValue(m[keys[i]])]]

----------------------------------------------------------------------------
(* Response bodies, json.Unmarshal into publishResponse and errorResponse   *)

JString(x) == [t |-> "string", s |-> x]
JNumber == [t |-> "number", s |-> ""]
JNull == [t |-> "null", s |-> ""]

\* A body: text that is not JSON ("malformed", the empty body included), or
\* the JSON value null, an array, or an object with its members.
Body(json, members) == [json |-> json, members |-> members]

\* Whether the body is a well-formed JSON text.
IsJSON(body) == body.json # "malformed"

\* The error of json.Unmarshal(body, &struct with the string fields in fields):
\* a syntax error for text that is not JSON, a type error for an array
\* and for a member of a string field that is a number.
jsonUnmarshalError(body, fields) ==
    IF body.json = "malformed" THEN "SyntaxError"
    ELSE IF body.json = "array" THEN "UnmarshalTypeError"
    ELSE IF body.json = "object"
            /\ \E f \in fields \cap DOMAIN body.members : body.members[f].t = "number"
    THEN "UnmarshalTypeError"
    ELSE ""

\* The value field f of the struct holds after json.Unmarshal: the member's
\* string, or the zero value "" it had before when the member is absent, null
\* or of another type, and when the body is null.
jsonUnmarshalField(body, f) ==
    IF body.json = "object" /\ f \in DOMAIN body.members /\ body.members[f].t = "string"
    THEN body.members[f].s
    ELSE ""

----------------------------------------------------------------------------
(* HTTP requests and the outcomes of the transport                           *)

\* net/url.PathEscape of one byte: kept, or written as %XX.
Hex(d) == IF d < 10 THEN 48 + d ELSE 55 + d

urlPathEscapeByte(b) ==
    IF b \in (97..122) \cup (65..90) \cup (48..57) \cup {45, 95, 46, 126}
              \cup {36, 38, 43, 58, 61, 64}
    THEN <<b>>
    ELSE <<37, Hex(b \div 16), Hex(b % 16)>>

\* url.PathEscape(userId), one piece per byte of userId
urlPathEscape(s) == [i \in 1..Len(s) |-> urlPathEscapeByte(s[i])]

\* (variant: the secret key left out of the Authorization header)
requestHeadersNoSecret(c) ==
    [Authorization |-> "Bearer ",
     ContentType |-> "application/json",
     XPusherLibrary |-> "pusher-push-notifications-go " \o sdkVersion]

\* The three headers every request gets.
requestHeaders(c) ==
    [Authorization |-> "Bearer " \o c.SecretKey,
     ContentType |-> "application/json",
     XPusherLibrary |-> "pusher-push-notifications-go " \o sdkVersion]

Request(method, url, segment, headers, body) ==
    [method |-> method, url |-> url, segment |-> segment,
     headers |-> headers, body |-> body]

\* URL of PublishToInterests: the base endpoint is part of the format string.
interestsURL(c) ==
    Sprintf(c.baseEndpoint \o <<"/publish_api/v1/instances/", "%s", "/publishes">>,
            << <<c.InstanceId>> >>)

\* URL of PublishToUsers: the base endpoint is an argument of the format.
usersURL(c) ==
    Sprintf(<<"%s", "/publish_api/v1/instances/", "%s", "/publishes/users">>,
            <<c.baseEndpoint, <<c.InstanceId>> >>)

\* URL of DeleteUser, up to the escaped user id.
deleteUserURL(c) ==
    Sprintf(<<"%s", "/customer_api/v1/instances/", "%s", "/users/">>,
            <<c.baseEndpoint, <<c.InstanceId>> >>)

\* What the transport gives back for one request: httpClient.Do fails (no
\* connection, timeout), or reading the body fails, or a response arrives.
Outcome(kind, status, body) == [kind |-> kind, status |-> status, body |-> body]

\* No answer yet.
NoOutcome == Outcome("none", 0, Body("malformed", <<>>))

Statuses == {StatusOK, 201, 301, 400}

Bodies ==
    { Body("malformed", <<>>), Body("null", <<>>), Body("array", <<>>),
      Body("object", <<>>),
      Body("object", [f \in {"publishId"} |-> JString("pub-123")]),
      Body("object", [f \in {"publishId"} |-> JString("")]),
      Body("object", [f \in {"publishId"} |-> JNumber]),
      Body("object", [f \in {"publishId"} |-> JNull]),
      Body("object", [f \in {"error", "description"} |->
                        IF f = "error" THEN JString("123") ELSE JString("why")]),
      Body("object", [f \in {"error", "description"} |->
                        IF f = "error" THEN JNumber ELSE JString("why")]) }

Outcomes ==
    { Outcome("DoError", 0, Body("malformed", <<>>)) }
    \cup { Outcome("ReadError", st, Body("malformed", <<>>)) : st \in Statuses }
    \cup { Outcome("Response", st, b) : st \in Statuses, b \in Bodies }

----------------------------------------------------------------------------
(* Calls                                                                     *)

Threads == {"t1", "t2"}
MapIds == {"m1", "m2"}

\* A goroutine that is in no call.
IdleCall ==
    [op |-> "none", pc |-> "idle", ids |-> <<>>, userId |-> <<>>, req |-> NilMap,
     before |-> <<>>, sent |-> <<>>, resp |-> NoOutcome, publishId |-> "", token |-> <<>>,
     err |-> NoErr, prev |-> <<>>]

\* The call as it is entered.
Entered(op, ids, userId, req) ==
    [IdleCall EXCEPT !.op = op, !.ids = ids, !.userId = userId, !.req = req]

\* The contents of the request map the caller passes, as the call is entered.
passed(h, request) == IF request = NilMap THEN <<NilMap>> ELSE <<h[request]>>

\* return "", err  (return nil, err in GenerateToken; return err in DeleteUser)
returnError(c, e) == [c EXCEPT !.pc = "returned", !.err = e]

\* return publishId, nil
returnPublishId(c, publishId) ==
    [c EXCEPT !.pc = "returned", !.publishId = publishId, !.err = NoErr]

\* (variant: the list is written into the request map before it is checked)
PublishToInterestsInjectFirst(t, op, interests, request) ==
    /\ pn # NoClient
    /\ call[t].pc = "idle"
    /\ op \in {"PublishToInterests", "Publish"}
    /\ LET c == [Entered(op, interests, <<>>, request) EXCEPT
                   !.before = passed(heap, request), !.prev = call[t].prev]
           e == interestsValidation(interests)
       IN call' = [call EXCEPT ![t] =
                     IF e # NoErr THEN returnError(c, e) ELSE [c EXCEPT !.pc = "inject"]]
    /\ heap' = IF request = NilMap THEN heap
               ELSE [heap EXCEPT ![request] = mapAssign(@, "interests", Val("strings", interests))]
    /\ UNCHANGED <<pn, newCall>>

\* PublishToInterests up to and without line 325: the checks of the arguments.
\* Publish only calls PublishToInterests.
PublishToInterests(t, op, interests, request) ==
    /\ pn # NoClient
    /\ call[t].pc = "idle"
    /\ op \in {"PublishToInterests", "Publish"}
    /\ LET c == [Entered(op, interests, <<>>, request) EXCEPT
                   !.before = passed(heap, request), !.prev = call[t].prev]
           e == interestsValidation(interests)
       IN call' = [call EXCEPT ![t] =
                     IF e # NoErr THEN returnError(c, e) ELSE [c EXCEPT !.pc = "inject"]]
    /\ UNCHANGED <<pn, newCall, heap>>

\* PublishToUsers up to and without line 359.
PublishToUsers(t, users, request) ==
    /\ pn # NoClient
    /\ call[t].pc = "idle"
    /\ LET c == [Entered("PublishToUsers", users, <<>>, request) EXCEPT
                   !.before = passed(heap, request), !.prev = call[t].prev]
           e == usersValidation(users)
       IN call' = [call EXCEPT ![t] =
                     IF e # NoErr THEN returnError(c, e) ELSE [c EXCEPT !.pc = "inject"]]
    /\ UNCHANGED <<pn, newCall, heap>>

\* The key the operation writes into the request map.
injectedKey(op) == IF op = "PublishToUsers" THEN "users" ELSE "interests"

\* (variant: the list is written into a copy of the map, which is dropped)
injectKeyIntoCopy(t) ==
    /\ call[t].pc = "inject"
    /\ call' = [call EXCEPT ![t].pc = IF call[t].req = NilMap THEN "panicked" ELSE "marshal"]
    /\ UNCHANGED <<pn, newCall, heap>>

\* request["interests"] = interests (line 325), request["users"] = users (line
\* 359): the write goes to the caller's map; on a nil map it panics.
injectKey(t) ==
    /\ call[t].pc = "inject"
    /\ IF call[t].req = NilMap
       THEN /\ call' = [call EXCEPT ![t].pc = "panicked"]
            /\ UNCHANGED heap
       ELSE /\ heap' = [heap EXCEPT ![call[t].req] =
                          mapAssign(@, injectedKey(call[t].op), Val("strings", call[t].ids))]
            /\ call' = [call EXCEPT ![t].pc = "marshal"]
    /\ UNCHANGED <<pn, newCall>>

\* Two goroutines in publish calls on the same map, one about to write its key
\* (line 325, 359) while the other writes its own or reads the map in
\* json.Marshal (line 326, 360): a data race on a Go map.  Besides the two
\* orders in which the accesses can follow each other, the runtime can detect
\* the race and end the process ("fatal error: concurrent map writes",
\* "concurrent map iteration and map write").
concurrentMapAccess(t, u) ==
    /\ t # u
    /\ call[t].pc = "inject"
    /\ call[u].pc \in {"inject", "marshal"}
    /\ call[t].req # NilMap
    /\ call[t].req = call[u].req
    /\ call' = [call EXCEPT ![t].pc = "fatal", ![u].pc = "fatal"]
    /\ UNCHANGED <<pn, newCall, heap>>

\* The request publishToAPI builds from the URL and the marshalled body.
publishRequest(c, op, body) ==
    Request("POST", IF op = "PublishToUsers" THEN usersURL(c) ELSE interestsURL(c),
            <<>>, requestHeaders(c), body)

\* json.Marshal(request), the URL, and publishToAPI up to httpClient.Do.
marshalAndSend(t) ==
    /\ call[t].pc = "marshal"
    /\ LET m == heap[call[t].req]
           r == publishRequest(pn, call[t].op, jsonMarshal(m))
       IN call' = [call EXCEPT ![t] =
             IF jsonMarshalError(m)
             THEN returnError(@, Err("Failed to marshal the publish request JSON body",
                                     <<>>, <<>>, <<"json: unsupported type">>))
             ELSE IF ~urlParse(r.url)
             THEN returnError(@, Err("Failed to prepare the publish request",
                                     <<>>, <<>>, <<"parse: invalid URL escape">>))
             ELSE [@ EXCEPT !.pc = "waiting", !.sent = Append(@, r)]]
    /\ UNCHANGED <<pn, newCall, heap>>

\* (variant: the error of json.Unmarshal is not looked at for a 200)
publishToAPIUnchecked(c, o) ==
    IF o.kind = "DoError"
    THEN returnError(c, Err("Failed to publish notifications due to a network error",
                            <<>>, <<>>, <<"transport">>))
    ELSE IF o.kind = "ReadError"
    THEN returnError(c, Err("Failed to read publish notification response due to a network error",
                            <<>>, <<>>, <<"transport">>))
    ELSE IF o.status = StatusOK
    THEN returnPublishId(c, jsonUnmarshalField(o.body, "publishId"))
    ELSE IF jsonUnmarshalError(o.body, {"error", "description"}) # ""
         THEN returnError(c, Err("Failed to read publish notification response due to invalid JSON",
                                 <<>>, <<>>,
                                 <<jsonUnmarshalError(o.body, {"error", "description"})>>))
         ELSE returnError(c, Err("Failed to publish notification", <<>>, <<>>,
                                 <<jsonUnmarshalField(o.body, "error"), ": ",
                                   jsonUnmarshalField(o.body, "description")>>))

\* (variant: every 2xx status taken as success)
publishToAPIAny2xx(c, o) ==
    IF o.kind = "DoError"
    THEN returnError(c, Err("Failed to publish notifications due to a network error",
                            <<>>, <<>>, <<"transport">>))
    ELSE IF o.kind = "ReadError"
    THEN returnError(c, Err("Failed to read publish notification response due to a network error",
                            <<>>, <<>>, <<"transport">>))
    ELSE IF o.status >= 200 /\ o.status <= 299
    THEN IF jsonUnmarshalError(o.body, {"publishId"}) # ""
         THEN returnError(c, Err("Failed to read publish notification response due to invalid JSON",
                                 <<>>, <<>>, <<jsonUnmarshalError(o.body, {"publishId"})>>))
         ELSE returnPublishId(c, jsonUnmarshalField(o.body, "publishId"))
    ELSE IF jsonUnmarshalError(o.body, {"error", "description"}) # ""
         THEN returnError(c, Err("Failed to read publish notification response due to invalid JSON",
                                 <<>>, <<>>,
                                 <<jsonUnmarshalError(o.body, {"error", "description"})>>))
         ELSE returnError(c, Err("Failed to publish notification", <<>>, <<>>,
                                 <<jsonUnmarshalField(o.body, "error"), ": ",
                                   jsonUnmarshalField(o.body, "description")>>))

\* (variant: a failed attempt is made again)
publishToAPIRetry(c, o) ==
    IF o.kind = "DoError"
    THEN [c EXCEPT !.pc = "waiting", !.sent = Append(@, @[1])]
    ELSE IF o.kind = "ReadError"
    THEN returnError(c, Err("Failed to read publish notification response due to a network error",
                            <<>>, <<>>, <<"transport">>))
    ELSE IF o.status = StatusOK
    THEN IF jsonUnmarshalError(o.body, {"publishId"}) # ""
         THEN returnError(c, Err("Failed to read publish notification response due to invalid JSON",
                                 <<>>, <<>>, <<jsonUnmarshalError(o.body, {"publishId"})>>))
         ELSE returnPublishId(c, jsonUnmarshalField(o.body, "publishId"))
    ELSE IF jsonUnmarshalError(o.body, {"error", "description"}) # ""
         THEN returnError(c, Err("Failed to read publish notification response due to invalid JSON",
                                 <<>>, <<>>,
                                 <<jsonUnmarshalError(o.body, {"error", "description"})>>))
         ELSE returnError(c, Err("Failed to publish notification", <<>>, <<>>,
                                 <<jsonUnmarshalField(o.body, "error"), ": ",
                                   jsonUnmarshalField(o.body, "description")>>))

\* publishToAPI from the return of httpClient.Do on: what the call returns.
publishToAPI(c, o) ==
    IF o.kind = "DoError"
    THEN returnError(c, Err("Failed to publish notifications due to a network error",
                            <<>>, <<>>, <<"transport">>))
    ELSE IF o.kind = "ReadError"
    THEN returnError(c, Err("Failed to read publish notification response due to a network error",
                            <<>>, <<>>, <<"transport">>))
    ELSE IF o.status = StatusOK
    THEN IF jsonUnmarshalError(o.body, {"publishId"}) # ""
         THEN returnError(c, Err("Failed to read publish notification response due to invalid JSON",
                                 <<>>, <<>>, <<jsonUnmarshalError(o.body, {"publishId"})>>))
         ELSE returnPublishId(c, jsonUnmarshalField(o.body, "publishId"))
    ELSE IF jsonUnmarshalError(o.body, {"error", "description"}) # ""
         THEN returnError(c, Err("Failed to read publish notification response due to invalid JSON",
                                 <<>>, <<>>,
                                 <<jsonUnmarshalError(o.body, {"error", "description"})>>))
         ELSE returnError(c, Err("Failed to publish notification", <<>>, <<>>,
                                 <<jsonUnmarshalField(o.body, "error"), ": ",
                                   jsonUnmarshalField(o.body, "description")>>))

\* The transport answers the request of a publish call.
publishResponse(t, o) ==
    /\ call[t].pc = "waiting"
    /\ call[t].op # "DeleteUser"
    /\ call' = [call EXCEPT ![t] = publishToAPI([@ EXCEPT !.resp = o], o)]
    /\ UNCHANGED <<pn, newCall, heap>>

\* DeleteUser up to httpClient.Do: the checks of the user id, then the request.
DeleteUser(t, userId) ==
    /\ pn # NoClient
    /\ call[t].pc = "idle"
    /\ LET c == Entered("DeleteUser", <<>>, userId, NilMap)
           e == deleteUserValidation(userId)
           r == Request("DELETE", deleteUserURL(pn), urlPathEscape(userId),
                        requestHeaders(pn), <<>>)
       IN call' = [call EXCEPT ![t] =
             IF e # NoErr THEN returnError(c, e)
             ELSE IF ~urlParse(r.url)
             THEN returnError(c, Err("Failed to prepare the delete user request",
                                     <<>>, <<>>, <<"parse: invalid URL escape">>))
             ELSE [c EXCEPT !.pc = "waiting", !.sent = Append(@, r)]]
    /\ UNCHANGED <<pn, newCall, heap>>

\* (variant: the body of a 200 response is decoded as the error body is)
deleteUserResultParsed(c, o) ==
    IF o.kind = "DoError"
    THEN returnError(c, Err("Failed to delete user due to a network error",
                            <<>>, <<>>, <<"transport">>))
    ELSE IF o.kind = "ReadError"
    THEN returnError(c, Err("Failed to read delete user response due to a network error",
                            <<>>, <<>>, <<"transport">>))
    ELSE IF jsonUnmarshalError(o.body, {"error", "description"}) # ""
         THEN returnError(c, Err("Failed to read delete user response due to invalid JSON",
                                 <<>>, <<>>,
                                 <<jsonUnmarshalError(o.body, {"error", "description"})>>))
    ELSE IF o.status = StatusOK
    THEN returnError(c, NoErr)
    ELSE returnError(c, Err("Failed to delete user", <<>>, <<>>,
                            <<jsonUnmarshalField(o.body, "error"), ": ",
                              jsonUnmarshalField(o.body, "description")>>))

\* DeleteUser from the return of httpClient.Do on: what the call returns.
deleteUserResult(c, o) ==
    IF o.kind = "DoError"
    THEN returnError(c, Err("Failed to delete user due to a network error",
                            <<>>, <<>>, <<"transport">>))
    ELSE IF o.kind = "ReadError"
    THEN returnError(c, Err("Failed to read delete user response due to a network error",
                            <<>>, <<>>, <<"transport">>))
    ELSE IF o.status = StatusOK
    THEN returnError(c, NoErr)
    ELSE IF jsonUnmarshalError(o.body, {"error", "description"}) # ""
         THEN returnError(c, Err("Failed to read delete user response due to invalid JSON",
                                 <<>>, <<>>,
                                 <<jsonUnmarshalError(o.body, {"error", "description"})>>))
         ELSE returnError(c, Err("Failed to delete user", <<>>, <<>>,
                                 <<jsonUnmarshalField(o.body, "error"), ": ",
                                   jsonUnmarshalField(o.body, "description")>>))

\* The transport answers the request of a DeleteUser call.
deleteUserResponse(t, o) ==
    /\ call[t].pc = "waiting"
    /\ call[t].op = "DeleteUser"
    /\ call' = [call EXCEPT ![t] = deleteUserResult([@ EXCEPT !.resp = o], o)]
    /\ UNCHANGED <<pn, newCall, heap>>

\* The deadline of the request passes: httpClient.Do returns an error.  The
\* http.Client sets a deadline only when its Timeout is greater than zero
\* (options.go line 11 stores the value as it is given; the default is a minute).
requestTimeout(t) ==
    /\ call[t].pc = "waiting"
    /\ pn.Timeout > 0
    /\ LET o == Outcome("DoError", 0, Body("malformed", <<>>))
       IN call' = [call EXCEPT ![t] =
                     IF @.op = "DeleteUser"
                     THEN deleteUserResult([@ EXCEPT !.resp = o], o)
                     ELSE publishToAPI([@ EXCEPT !.resp = o], o)]
    /\ UNCHANGED <<pn, newCall, heap>>

\* The signed token: its claims as encoding/json writes them, and the key of
\* the HS256 signature.
signedToken(c, userId, now) ==
    [sub |-> jsonString(userId),
     exp |-> now + tokenTTL,
     iss |-> "https://" \o c.InstanceId \o ".pushnotifications.pusher.com",
     key |-> c.SecretKey]

\* GenerateToken, with time.Now() reading now; it sends nothing.
GenerateToken(t, userId, now) ==
    /\ pn # NoClient
    /\ call[t].pc = "idle"
    /\ LET c == Entered("GenerateToken", <<>>, userId, NilMap)
           e == generateTokenValidation(userId)
       IN call' = [call EXCEPT ![t] =
             IF e # NoErr THEN returnError(c, e)
             ELSE [c EXCEPT !.pc = "returned", !.token = <<signedToken(pn, userId, now)>>]]
    /\ UNCHANGED <<pn, newCall, heap>>

\* The caller takes the result; the goroutine is free for its next call.
Return(t) ==
    /\ call[t].pc = "returned"
    /\ call' = [call EXCEPT ![t] = IdleCall]
    /\ UNCHANGED <<pn, newCall, heap>>

\* The caller takes the result and keeps it, with the arguments of the call, to
\* make the same call again.
ReturnAndRemember(t) ==
    /\ call[t].pc = "returned"
    /\ call' = [call EXCEPT ![t] =
                  [IdleCall EXCEPT !.prev = <<[op |-> call[t].op, ids |-> call[t].ids,
                                              req |-> call[t].req, err |-> call[t].err]>>]]
    /\ UNCHANGED <<pn, newCall, heap>>

\* The caller takes the result and builds a new map literal for its next call.
ReturnAndRenew(t, m, fresh) ==
    /\ call[t].pc = "returned"
    /\ call' = [call EXCEPT ![t] = IdleCall]
    /\ heap' = [heap EXCEPT ![m] = fresh]
    /\ UNCHANGED <<pn, newCall>>

\* pn, err := New(instanceId, secretKey, options...), called until a client exists
NotCalled ==
    [called |-> FALSE, instanceId |-> "", secretKey |-> "", options |-> <<>>, err |-> NoErr]

New(instanceId, secretKey, options) ==
    /\ pn = NoClient
    /\ pn' = newClient(instanceId, secretKey, options)
    /\ newCall' = [called |-> TRUE, instanceId |-> instanceId, secretKey |-> secretKey,
                   options |-> options, err |-> newError(instanceId, secretKey)]
    /\ UNCHANGED <<heap, call>>

----------------------------------------------------------------------------
(* Inputs                                                                    *)

Around(limit) == (limit - Slack)..(limit + Slack)

\* 'a', '#', the byte 0xC0 (never valid in UTF-8), and the two bytes of U+00E9
ProbeBytes == {97, 35, 192, 195, 169}

BytesUpTo(n) == UNION {[1..k -> ProbeBytes] : k \in 0..n}

ShortStrings == BytesUpTo(MaxShort)

\* Strings of a length around the limit of 164: a run of 'a', then at most
\* one probe byte.
LongStrings ==
    {Rep(97, n - Len(tail)) \o tail : n \in Around(maxUserIdLength), tail \in BytesUpTo(1)}

Strings == ShortStrings \cup LongStrings

\* Elements with one violation each: empty, forbidden character (valid UTF-8),
\* invalid UTF-8 (and forbidden character), too long.
Violations == {<<>>, <<35>>, <<192>>, Rep(97, maxUserIdLength + 1)}

\* Lists around a size limit, and lists in which a probed element follows up to
\* MaxPad valid elements and may be followed by an element with a violation.
Lists(limit) ==
    {<<>>}
    \cup {Rep(<<97>>, n) : n \in Around(limit)}
    \cup {Rep(<<97>>, n - 1) \o <<v>> : n \in Around(limit), v \in Violations}
    \cup {Rep(<<97>>, k) \o <<s>> : k \in 0..MaxPad, s \in Strings}
    \cup {Rep(<<97>>, k) \o <<s, v>> : k \in 0..MaxPad, s \in Strings, v \in Violations}

\* For interests also every single byte, as a list of one interest of one byte.
InterestLists == Lists(maxInterests) \cup {<< <<b>> >> : b \in 0..255}
UserLists == Lists(maxNumUserIdsWhenPublishing)

\* The few inputs of the specification of the whole client.
SomeInterestLists == {<<>>, << <<97>> >>, << <<35>> >>}
SomeUserLists == {<<>>, << <<117>> >>, << <<192>> >>}
SomeUserIds == {<<>>, <<117>>, <<192>>}

InstanceIds == {"", "i-123"}
SecretKeys == {"", "k-456", "k-789"}
\* New is called with up to this many options.
MaxOptions == 2
\* Two timeouts, and three base URLs: a plain one, one with the escape %2F and
\* one with a doubled '%'.
Options ==
    { WithRequestTimeout(1), WithRequestTimeout(2),
      WithCustomBaseURL(<<"http://127.0.0.1:8080">>),
      WithCustomBaseURL(<<"http://h/a", "%2F", "b">>),
      WithCustomBaseURL(<<"http://h/", "%%41">>) }
OptionLists == UNION {[1..k -> Options] : k \in 0..MaxOptions}

\* Readings of time.Now().Unix()
Times == {1000, 2000}

\* The map literals a caller builds: a notification, nothing, and a value
\* encoding/json cannot write.
Notification == [k \in {"fcm"} |-> Val("object", <<>>)]

FreshMaps ==
    { Notification,
      [k \in {} |-> Val("object", <<>>)],
      [k \in {"fcm"} |-> Val("chan", <<>>)] }

----------------------------------------------------------------------------
(* The whole client: construction, then calls of one goroutine on maps the   *)
(* caller keeps using.                                                       *)

Init ==
    /\ pn = NoClient
    /\ newCall = NotCalled
    /\ heap \in [MapIds -> FreshMaps]
    /\ heap["m2"] = Notification
    /\ call = [t \in Threads |-> IdleCall]

Next ==
    \/ \E i \in InstanceIds, k \in SecretKeys, o \in OptionLists : New(i, k, o)
    \/ \E op \in {"PublishToInterests", "Publish"}, l \in SomeInterestLists,
          m \in {"m1", NilMap} : PublishToInterests("t1", op, l, m)
    \/ \E l \in SomeUserLists, m \in {"m1", NilMap} : PublishToUsers("t1", l, m)
    \/ injectKey("t1")
    \/ marshalAndSend("t1")
    \/ \E o \in Outcomes : publishResponse("t1", o)
    \/ \E u \in SomeUserIds : DeleteUser("t1", u)
    \/ \E o \in Outcomes : deleteUserResponse("t1", o)
    \/ \E u \in SomeUserIds, now \in Times : GenerateToken("t1", u, now)
    \/ Return("t1")

Spec == Init /\ [][Next]_vars

----------------------------------------------------------------------------
(* Validation: a client built with New("i-123", "k-456"), the operations      *)
(* applied to the bounded sets of lists and identifiers, every call on a map  *)
(* literal of its own.                                                        *)

InitValidation ==
    /\ pn = newClient("i-123", "k-456", <<>>)
    /\ newCall = [called |-> TRUE, instanceId |-> "i-123", secretKey |-> "k-456",
                  options |-> <<>>, err |-> NoErr]
    /\ heap \in [MapIds -> FreshMaps]
    /\ heap["m2"] = Notification
    /\ call = [t \in Threads |-> IdleCall]

NextValidation ==
    \/ \E op \in {"PublishToInterests", "Publish"}, l \in InterestLists :
          PublishToInterests("t1", op, l, "m1")
    \/ \E l \in UserLists : PublishToUsers("t1", l, "m1")
    \/ injectKey("t1")
    \/ marshalAndSend("t1")
    \/ \E o \in Outcomes : publishResponse("t1", o)
    \/ \E u \in Strings : DeleteUser("t1", u)
    \/ \E o \in Outcomes : deleteUserResponse("t1", o)
    \/ \E u \in Strings, now \in Times : GenerateToken("t1", u, now)
    \/ \E fresh \in FreshMaps : ReturnAndRenew("t1", "m1", fresh)

SpecValidation == InitValidation /\ [][NextValidation]_vars

----------------------------------------------------------------------------
(* Concurrent use: two goroutines publish through one client, each on either  *)
(* of two maps of the caller.                                                 *)

ConcurrentInterestLists == {<< <<97>> >>, << <<98>> >>}
ConcurrentUserLists == {<< <<117>> >>}

ConcurrentOutcomes ==
    { Outcome("DoError", 0, Body("malformed", <<>>)),
      Outcome("Response", StatusOK,
              Body("object", [f \in {"publishId"} |-> JString("pub-123")])),
      Outcome("Response", 400,
              Body("object", [f \in {"error", "description"} |->
                                IF f = "error" THEN JString("123") ELSE JString("why")])) }

InitConcurrent ==
    /\ pn = newClient("i-123", "k-456", <<>>)
    /\ newCall = [called |-> TRUE, instanceId |-> "i-123", secretKey |-> "k-456",
                  options |-> <<>>, err |-> NoErr]
    /\ heap = [m \in MapIds |-> Notification]
    /\ call = [t \in Threads |-> IdleCall]

NextConcurrent ==
    \/ \E t \in Threads, l \in ConcurrentInterestLists, m \in MapIds :
          PublishToInterests(t, "PublishToInterests", l, m)
    \/ \E t \in Threads, l \in ConcurrentUserLists, m \in MapIds : PublishToUsers(t, l, m)
    \/ \E t \in Threads : injectKey(t)
    \/ \E t, u \in Threads : concurrentMapAccess(t, u)
    \/ \E t \in Threads : marshalAndSend(t)
    \/ \E t \in Threads, o \in ConcurrentOutcomes : publishResponse(t, o)
    \/ \E t \in Threads : Return(t)

SpecConcurrent == InitConcurrent /\ [][NextConcurrent]_vars

----------------------------------------------------------------------------
(* Repeated calls: one goroutine publishes through one client, on a map it    *)
(* keeps or on no map, and remembers each call to make it again.              *)

RepeatInterestLists == {<<>>, << <<97>> >>, << <<35>> >>, << <<97>>, <<>> >>}
RepeatUserLists == {<<>>, << <<117>> >>, << <<192>> >>}

InitRepeat ==
    /\ pn = newClient("i-123", "k-456", <<>>)
    /\ newCall = [called |-> TRUE, instanceId |-> "i-123", secretKey |-> "k-456",
                  options |-> <<>>, err |-> NoErr]
    /\ heap = [m \in MapIds |-> Notification]
    /\ call = [t \in Threads |-> IdleCall]

NextRepeat ==
    \/ \E op \in {"PublishToInterests", "Publish"}, l \in RepeatInterestLists,
          m \in {"m1", NilMap} : PublishToInterests("t1", op, l, m)
    \/ \E l \in RepeatUserLists, m \in {"m1", NilMap} : PublishToUsers("t1", l, m)
    \/ injectKey("t1")
    \/ marshalAndSend("t1")
    \/ \E o \in ConcurrentOutcomes : publishResponse("t1", o)
    \/ ReturnAndRemember("t1")

SpecRepeat == InitRepeat /\ [][NextRepeat]_vars

----------------------------------------------------------------------------
(* Progress: one goroutine calls a client built with the default timeout or   *)
(* with WithRequestTimeout; the server may answer, fail or stay silent.  The  *)
(* steps of the call itself are taken (the goroutine is scheduled) and a      *)
(* deadline that is set passes; nothing makes the server answer.              *)

LiveOptionLists == {<<>>, <<WithRequestTimeout(0)>>, <<WithRequestTimeout(1)>>}

InitLive ==
    /\ \E o \in LiveOptionLists :
          /\ pn = newClient("i-123", "k-456", o)
          /\ newCall = [called |-> TRUE, instanceId |-> "i-123", secretKey |-> "k-456",
                        options |-> o, err |-> NoErr]
    /\ heap = [m \in MapIds |-> Notification]
    /\ call = [t \in Threads |-> IdleCall]

NextLive ==
    \/ \E l \in SomeInterestLists : PublishToInterests("t1", "PublishToInterests", l, "m1")
    \/ \E l \in SomeUserLists : PublishToUsers("t1", l, "m1")
    \/ injectKey("t1")
    \/ marshalAndSend("t1")
    \/ \E o \in ConcurrentOutcomes : publishResponse("t1", o)
    \/ \E u \in SomeUserIds : DeleteUser("t1", u)
    \/ \E o \in ConcurrentOutcomes : deleteUserResponse("t1", o)
    \/ requestTimeout("t1")
    \/ Return("t1")

SpecLive ==
    /\ InitLive
    /\ [][NextLive]_vars
    /\ WF_vars(injectKey("t1"))
    /\ WF_vars(marshalAndSend("t1"))
    /\ WF_vars(requestTimeout("t1"))

----------------------------------------------------------------------------
(* Properties                                                                *)

InterestOps == {"PublishToInterests", "Publish"}

\* The messages of the errors the checks of the arguments return.
InterestMessages ==
    { "No interests were supplied",
      "Too many interests supplied (%d): API only supports up to 100",
      "An empty interest name is not valid",
      "Interest length is %d which is over 164 characters",
      "Interest %s contains an forbidden character: Allowed characters are: ASCII upper/lower-case letters, numbers or one of _-=@,.:" }

UserMessages ==
    { "Must supply at least one user id",
      "Too many user ids supplied. API supports up to %d, got %d",
      "Empty user ids are not valid",
      "User Id ('%s') length too long (expected fewer than %d characters, got %d)",
      "User Id at index %d is not valid utf8" }

UserIdMessages ==
    { "User Id cannot be empty",
      "User Id ('%s') length too long (expected fewer than %d characters, got %d)",
      "User Id must be encoded using utf8" }

ValidationMessages == InterestMessages \cup UserMessages \cup UserIdMessages

\* The call has returned an error of the checks of its arguments.
Rejected(c) == c.pc = "returned" /\ c.err.msg \in ValidationMessages

\* The call has got past the checks of its arguments.
Passed(c) == c.op # "none" /\ ~Rejected(c)

\* The rules as the specification states them.
AllowedCharacters ==
    (65..90) \cup (97..122) \cup (48..57) \cup {95, 45, 61, 64, 44, 46, 59}

AllowedOnly(s) == \A i \in 1..Len(s) : s[i] \in AllowedCharacters

InterestOK(s) == Len(s) >= 1 /\ Len(s) <= 164 /\ AllowedOnly(s)

UserIdOK(s) == Len(s) >= 1 /\ Len(s) <= 164 /\ utf8ValidString(s)

InterestListOK(l) ==
    Len(l) >= 1 /\ Len(l) <= 100 /\ \A i \in 1..Len(l) : InterestOK(l[i])

UserListOK(l) ==
    Len(l) >= 1 /\ Len(l) <= 1000 /\ \A i \in 1..Len(l) : UserIdOK(l[i])

\* The arguments of the call break a rule of its operation (for GenerateToken
\* the two rules of section 4.8).
InputInvalid(c) ==
    \/ c.op \in InterestOps /\ ~InterestListOK(c.ids)
    \/ c.op = "PublishToUsers" /\ ~UserListOK(c.ids)
    \/ c.op = "DeleteUser" /\ ~UserIdOK(c.userId)
    \/ c.op = "GenerateToken" /\ (Len(c.userId) = 0 \/ Len(c.userId) > 164)

\* C1: a call whose arguments fail validation returns the validation error and
\* has issued no HTTP request at any moment: no call that returned a
\* validation error has sent a request, a call with invalid arguments is never
\* seen past its checks, and GenerateToken never sends.
C1_NoRequestOnValidationError ==
    \A t \in Threads :
        LET c == call[t] IN
        /\ Rejected(c) => c.sent = <<>>
        /\ InputInvalid(c) => Rejected(c) /\ c.sent = <<>>
        /\ c.op = "GenerateToken" => c.sent = <<>>

\* Publish has rejected a list whose second interest has a forbidden character.
C1_Witness ==
    LET c == call["t1"] IN
    /\ Rejected(c)
    /\ c.op = "Publish"
    /\ Len(c.ids) = 2
    /\ c.ids[2] = <<35>>
    /\ c.sent = <<>>

\* C2: New fails, with no client, exactly when instanceId or secretKey is
\* empty; a client that exists holds the non-empty InstanceId and SecretKey New
\* was given, in every state, whatever operations have run since.
C2_ClientIdentity ==
    /\ ~newCall.called => pn = NoClient
    /\ newCall.called =>
        /\ (newCall.err # NoErr) <=> (newCall.instanceId = "" \/ newCall.secretKey = "")
        /\ (pn = NoClient) <=> (newCall.err # NoErr)
    /\ pn # NoClient =>
        /\ pn.InstanceId = newCall.instanceId
        /\ pn.SecretKey = newCall.secretKey
        /\ pn.InstanceId # ""
        /\ pn.SecretKey # ""

\* A client built with an option has published to users and got its answer.
C2_Witness ==
    /\ pn # NoClient
    /\ newCall.options # <<>>
    /\ call["t1"].op = "PublishToUsers"
    /\ call["t1"].pc = "returned"
    /\ call["t1"].publishId = "pub-123"

\* The rules an interest breaks, and the message of the first in the order
\* empty, too long, forbidden character.
InterestRuleMessage(s) ==
    IF Len(s) = 0 THEN "An empty interest name is not valid"
    ELSE IF Len(s) > 164 THEN "Interest length is %d which is over 164 characters"
    ELSE IF ~AllowedOnly(s)
    THEN "Interest %s contains an forbidden character: Allowed characters are: ASCII upper/lower-case letters, numbers or one of _-=@,.:"
    ELSE ""

\* The message the order of the rules asks for: count 0, count over 100, then
\* the first rule broken by the first interest, in list order, that breaks one.
ExpectedInterestMessage(l) ==
    IF Len(l) = 0 THEN "No interests were supplied"
    ELSE IF Len(l) > 100
    THEN "Too many interests supplied (%d): API only supports up to 100"
    ELSE LET bad == {i \in 1..Len(l) : ~InterestOK(l[i])}
         IN IF bad = {} THEN "" ELSE InterestRuleMessage(l[Min(bad)])

\* C3: PublishToInterests returns the error of the earliest rule, in the order
\* count 0, count over 100, then per interest in list order empty, too long,
\* forbidden character; a list that breaks no rule passes.
C3_InterestRuleOrder ==
    \A t \in Threads :
        LET c == call[t] IN
        c.op \in InterestOps =>
            IF ExpectedInterestMessage(c.ids) = ""
            THEN Passed(c)
            ELSE Rejected(c) /\ c.err.msg = ExpectedInterestMessage(c.ids)

\* A list with two violations: a forbidden character, then an empty name.
C3_Witness ==
    LET c == call["t1"] IN
    /\ c.op = "PublishToInterests"
    /\ c.pc = "returned"
    /\ Len(c.ids) = 3
    /\ c.ids[2] = <<97, 35>>
    /\ c.ids[3] = <<>>
    /\ c.err.strs = << <<97, 35>> >>

\* C4: for lists whose interests all have a valid length and character set,
\* validation passes exactly for 1 to 100 interests: an empty list gives "No
\* interests were supplied", 100 interests pass, more than 100 give "Too many
\* interests supplied" with the actual count.
C4_InterestCount ==
    \A t \in Threads :
        LET c == call[t] IN
        (c.op \in InterestOps /\ \A i \in 1..Len(c.ids) : InterestOK(c.ids[i])) =>
            /\ Passed(c) <=> (Len(c.ids) >= 1 /\ Len(c.ids) <= 100)
            /\ Len(c.ids) = 0 =>
                 c.err = Err("No interests were supplied", <<>>, <<>>, <<>>)
            /\ Len(c.ids) > 100 =>
                 c.err = Err("Too many interests supplied (%d): API only supports up to 100",
                             <<>>, <<Len(c.ids)>>, <<>>)

\* The request of a call with exactly 100 interests is on its way.
C4_Witness ==
    LET c == call["t1"] IN
    /\ c.op = "PublishToInterests"
    /\ Len(c.ids) = 100
    /\ c.pc = "waiting"
    /\ Len(c.sent) = 1

\* C5: an interest made of allowed characters passes the length check with 164
\* bytes and fails it with N >= 165 bytes, the error giving N: in a list of 1 to
\* 100 non-empty interests of allowed characters, the call passes when none is
\* longer than 164 and else returns the length error of the first longer one.
C5_InterestLength ==
    \A t \in Threads :
        LET c == call[t]
            long == {i \in 1..Len(c.ids) : Len(c.ids[i]) >= 165}
        IN
        (/\ c.op \in InterestOps
         /\ Len(c.ids) >= 1 /\ Len(c.ids) <= 100
         /\ \A i \in 1..Len(c.ids) : Len(c.ids[i]) >= 1 /\ AllowedOnly(c.ids[i])) =>
            IF long = {}
            THEN Passed(c)
            ELSE /\ c.pc = "returned"
                 /\ c.err = Err("Interest length is %d which is over 164 characters",
                                <<>>, <<Len(c.ids[Min(long)])>>, <<>>)

\* The request of a call with an interest of exactly 164 bytes is on its way.
C5_Witness ==
    LET c == call["t1"] IN
    /\ c.op = "PublishToInterests"
    /\ c.pc = "waiting"
    /\ \E i \in 1..Len(c.ids) : Len(c.ids[i]) = 164

\* C6: an interest of 1 to 164 bytes passes exactly when every byte is an ASCII
\* letter, a digit or one of _ - = @ , . ; and is else rejected with an error
\* that holds the interest itself: in a list of 1 to 100 interests of 1 to 164
\* bytes, the call passes when all are of allowed characters and else returns
\* the forbidden-character error of the first that is not.
C6_InterestCharacters ==
    \A t \in Threads :
        LET c == call[t]
            bad == {i \in 1..Len(c.ids) : ~AllowedOnly(c.ids[i])}
        IN
        (/\ c.op \in InterestOps
         /\ Len(c.ids) >= 1 /\ Len(c.ids) <= 100
         /\ \A i \in 1..Len(c.ids) : Len(c.ids[i]) >= 1 /\ Len(c.ids[i]) <= 164) =>
            IF bad = {}
            THEN Passed(c)
            ELSE /\ c.pc = "returned"
                 /\ c.err.msg = "Interest %s contains an forbidden character: Allowed characters are: ASCII upper/lower-case letters, numbers or one of _-=@,.:"
                 /\ c.err.strs = <<c.ids[Min(bad)]>>

\* An interest of 164 bytes whose last byte alone is forbidden was rejected.
C6_Witness ==
    LET c == call["t1"] IN
    /\ c.op = "PublishToInterests"
    /\ c.pc = "returned"
    /\ Len(c.ids) = 1
    /\ Len(c.ids[1]) = 164
    /\ c.ids[1][1] = 97
    /\ c.ids[1][164] = 35
    /\ c.err.strs = <<c.ids[1]>>

\* The rule of section 4.3 a user id breaks, as the message of its error, or ""
\* when it breaks none: empty, then longer than 164, then invalid UTF-8.
UserIdRuleMessage(s) ==
    IF Len(s) = 0 THEN "Empty user ids are not valid"
    ELSE IF Len(s) > 164
    THEN "User Id ('%s') length too long (expected fewer than %d characters, got %d)"
    ELSE IF ~utf8ValidString(s) THEN "User Id at index %d is not valid utf8"
    ELSE ""

\* The message of the first violation of a list of user ids, "" when none.
ExpectedUserMessage(l) ==
    LET bad == {i \in 1..Len(l) : UserIdRuleMessage(l[i]) # ""} IN
    IF Len(l) = 0 THEN "Must supply at least one user id"
    ELSE IF Len(l) > 1000 THEN "Too many user ids supplied. API supports up to %d, got %d"
    ELSE IF bad = {} THEN ""
    ELSE UserIdRuleMessage(l[Min(bad)])

\* C7: PublishToUsers returns the first violation in the order: no user ids,
\* more than 1000 user ids (the error holding 1000 and the actual count), then
\* for each id by index: empty, longer than 164, invalid UTF-8. A list of 1 to
\* 1000 ids that break no rule passes validation.
C7_UserRuleOrder ==
    \A t \in Threads :
        LET c == call[t] IN
        c.op = "PublishToUsers" =>
            /\ IF ExpectedUserMessage(c.ids) = ""
               THEN Passed(c)
               ELSE Rejected(c) /\ c.err.msg = ExpectedUserMessage(c.ids)
            /\ Len(c.ids) > 1000 => c.err.nums = <<1000, Len(c.ids)>>
            /\ UserListOK(c.ids) <=> Passed(c)

\* A list of 1001 user ids was rejected as too long, with both numbers.
C7_Witness ==
    LET c == call["t1"] IN
    /\ c.op = "PublishToUsers"
    /\ c.pc = "returned"
    /\ Len(c.ids) = 1001
    /\ c.err.msg = "Too many user ids supplied. API supports up to %d, got %d"
    /\ c.err.nums = <<1000, 1001>>

\* C8: when the first user id of a list of 1 to 1000 that fails a check is one
\* that is non-empty, at most 164 long and not valid UTF-8, at 0-based index i,
\* the error PublishToUsers returns names exactly the index i.
C8_InvalidUtf8Index ==
    \A t \in Threads :
        LET c == call[t]
            bad == {k \in 1..Len(c.ids) : ~UserIdOK(c.ids[k])}
        IN
        (/\ c.op = "PublishToUsers"
         /\ Len(c.ids) >= 1 /\ Len(c.ids) <= 1000
         /\ bad # {}
         /\ Len(c.ids[Min(bad)]) >= 1
         /\ Len(c.ids[Min(bad)]) <= 164) =>
            /\ c.pc = "returned"
            /\ c.err = Err("User Id at index %d is not valid utf8",
                           <<>>, <<Min(bad) - 1>>, <<>>)

\* The third user id of a list was the first invalid one: the error names 2.
C8_Witness ==
    LET c == call["t1"] IN
    /\ c.op = "PublishToUsers"
    /\ c.pc = "returned"
    /\ Len(c.ids) >= 3
    /\ UserIdOK(c.ids[1]) /\ UserIdOK(c.ids[2])
    /\ ~utf8ValidString(c.ids[3])
    /\ c.err.nums = <<2>>

\* C9: DeleteUser and GenerateToken each accept a user id exactly when it is
\* non-empty, at most 164 long and valid UTF-8, as PublishToUsers does for
\* one element of its list.
C9_SingleUserIdValidation ==
    \A t \in Threads :
        LET c == call[t] IN
        c.op \in {"DeleteUser", "GenerateToken"} =>
            (UserIdOK(c.userId) <=> Passed(c))

\* A publish call that has returned after reading the body of a response
\* with HTTP status 200.
Answered200(c) ==
    /\ c.op \in {"PublishToInterests", "Publish", "PublishToUsers"}
    /\ c.pc = "returned"
    /\ c.resp.kind = "Response"
    /\ c.resp.status = 200

\* The error of a response body that could not be decoded.
InvalidJSONMessage == "Failed to read publish notification response due to invalid JSON"

\* C10 as stated: after a response with status 200, a body that parses as JSON
\* gives the body's publishId with a nil error, and a body that does not parse
\* gives an empty publishId and an 'invalid JSON' error.
C10_PublishIdOfAnyJSON ==
    \A t \in Threads :
        LET c == call[t] IN
        Answered200(c) =>
            IF IsJSON(c.resp.body)
            THEN c.err = NoErr /\ c.publishId = jsonUnmarshalField(c.resp.body, "publishId")
            ELSE c.publishId = "" /\ c.err.msg = InvalidJSONMessage

\* The body decodes as {publishId: string}: it is the JSON null, or an object
\* whose member publishId, when it has one, is a string or null.
DecodesAsPublishResponse(body) ==
    \/ body.json = "null"
    \/ /\ body.json = "object"
       /\ "publishId" \in DOMAIN body.members =>
            body.members["publishId"].t \in {"string", "null"}

\* The string the member publishId of the body holds, "" when the body has no
\* such string.
PublishIdOf(body) ==
    IF /\ body.json = "object"
       /\ "publishId" \in DOMAIN body.members
       /\ body.members["publishId"].t = "string"
    THEN body.members["publishId"].s
    ELSE ""

\* C10 (amended): after a response with status 200 whose body was read, a body
\* that decodes as {publishId: string} gives the string of its publishId (the
\* empty string when the member is absent or null) with a nil error; every
\* other body, malformed or well-formed JSON of another shape, gives an empty
\* publishId and an 'invalid JSON' error.
C10_PublishIdOfDecodedBody ==
    \A t \in Threads :
        LET c == call[t] IN
        Answered200(c) =>
            IF DecodesAsPublishResponse(c.resp.body)
            THEN c.err = NoErr /\ c.publishId = PublishIdOf(c.resp.body)
            ELSE c.publishId = "" /\ c.err.msg = InvalidJSONMessage

\* A response with status 200 whose body is the well-formed JSON object with a
\* number as publishId was answered with the 'invalid JSON' error.
C10_Witness ==
    LET c == call["t1"] IN
    /\ Answered200(c)
    /\ c.resp.body = Body("object", [f \in {"publishId"} |-> JNumber])
    /\ c.publishId = ""
    /\ c.err.msg = InvalidJSONMessage

\* A publish call that has returned after reading the body of a response
\* with an HTTP status other than 200.
AnsweredNot200(c) ==
    /\ c.op \in {"PublishToInterests", "Publish", "PublishToUsers"}
    /\ c.pc = "returned"
    /\ c.resp.kind = "Response"
    /\ c.resp.status # 200

\* The body decodes as {error: string, description: string}: it is the JSON
\* null, or an object whose members error and description, when it has them,
\* are strings or null.
DecodesAsErrorResponse(body) ==
    \/ body.json = "null"
    \/ /\ body.json = "object"
       /\ \A f \in {"error", "description"} \cap DOMAIN body.members :
            body.members[f].t \in {"string", "null"}

\* The string a member of the body holds, "" when the body has no such string.
MemberOf(body, f) ==
    IF body.json = "object" /\ f \in DOMAIN body.members /\ body.members[f].t = "string"
    THEN body.members[f].s
    ELSE ""

\* C11 as stated: after a response with any status other than 200 a publish
\* call returns an empty publishId and an error: the 'invalid JSON' error when
\* the body does not parse as JSON, and otherwise 'Failed to publish
\* notification' around the text "{error}: {description}" taken from the body.
C11_OtherStatusOfAnyJSON ==
    \A t \in Threads :
        LET c == call[t] IN
        AnsweredNot200(c) =>
            /\ c.publishId = ""
            /\ c.err # NoErr
            /\ IF IsJSON(c.resp.body)
               THEN /\ c.err.msg = "Failed to publish notification"
                    /\ c.err.cause = <<MemberOf(c.resp.body, "error"), ": ",
                                       MemberOf(c.resp.body, "description")>>
               ELSE c.err.msg = InvalidJSONMessage

\* C11 (amended): after a response with any status other than 200 (201 and 301
\* among them) whose body was read, a publish call returns an empty publishId
\* and an error: 'Failed to publish notification' around the text
\* "{error}: {description}" when the body decodes as {error: string,
\* description: string} (a member that is absent or null gives the empty
\* string), and the 'invalid JSON' error for every other body, malformed or
\* well-formed JSON of another shape.
C11_OtherStatusIsError ==
    \A t \in Threads :
        LET c == call[t] IN
        AnsweredNot200(c) =>
            /\ c.publishId = ""
            /\ c.err # NoErr
            /\ IF DecodesAsErrorResponse(c.resp.body)
               THEN /\ c.err.msg = "Failed to publish notification"
                    /\ c.err.cause = <<MemberOf(c.resp.body, "error"), ": ",
                                       MemberOf(c.resp.body, "description")>>
               ELSE c.err.msg = InvalidJSONMessage

\* A response with status 201 whose body is a JSON object with a number as
\* error was answered with the 'invalid JSON' error.
C11_Witness ==
    LET c == call["t1"] IN
    /\ AnsweredNot200(c)
    /\ c.resp.status = 201
    /\ c.resp.body = Body("object", [f \in {"error", "description"} |->
                                       IF f = "error" THEN JNumber ELSE JString("why")])
    /\ c.publishId = ""
    /\ c.err.msg = InvalidJSONMessage

PublishOps == {"PublishToInterests", "Publish", "PublishToUsers"}

\* C12: every publish call returns either a non-empty publishId with a nil
\* error or an empty publishId with a non-nil error; a nil error comes with a
\* non-empty publishId whatever the body of the 200 response is.
C12_PublishIdOrError ==
    \A t \in Threads :
        LET c == call[t] IN
        (c.op \in PublishOps /\ c.pc = "returned") =>
            \/ c.publishId # "" /\ c.err = NoErr
            \/ c.publishId = "" /\ c.err # NoErr

\* The errors of a request that failed in the transport.
NetworkMessages ==
    { "Failed to publish notifications due to a network error",
      "Failed to read publish notification response due to a network error",
      "Failed to delete user due to a network error",
      "Failed to read delete user response due to a network error" }

\* C13: a call issues at most one HTTP request and GenerateToken none; the
\* step that follows the one attempt of a call ends the call without another
\* request, and with a network error when the attempt failed in the transport.
C13_SingleAttempt ==
    /\ [](\A t \in Threads :
            /\ Len(call[t].sent) <= 1
            /\ call[t].op = "GenerateToken" => call[t].sent = <<>>)
    /\ [][\A t \in Threads :
            (call[t].pc = "waiting" /\ call'[t] # call[t]) =>
                /\ call'[t].pc = "returned"
                /\ call'[t].sent = call[t].sent
                /\ call'[t].resp.kind \in {"DoError", "ReadError"} =>
                     call'[t].err.msg \in NetworkMessages]_vars

\* The one attempt of a publish call failed in the transport and the call
\* returned the network error, having sent one request.
C13_Witness ==
    LET c == call["t1"] IN
    /\ c.op = "PublishToUsers"
    /\ c.pc = "returned"
    /\ c.resp.kind = "DoError"
    /\ Len(c.sent) = 1
    /\ c.err.msg = "Failed to publish notifications due to a network error"

\* A DeleteUser call that has returned after reading the body of a response.
DeleteAnswered(c) ==
    /\ c.op = "DeleteUser"
    /\ c.pc = "returned"
    /\ c.resp.kind = "Response"

InvalidJSONDeleteMessage == "Failed to read delete user response due to invalid JSON"

\* C14 as stated: DeleteUser returns nil after a response with status 200
\* whatever its body; after any other status it returns the 'invalid JSON'
\* error when the body does not parse as JSON and otherwise 'Failed to delete
\* user' around "{error}: {description}".
C14_DeleteUserOfAnyJSON ==
    \A t \in Threads :
        LET c == call[t] IN
        DeleteAnswered(c) =>
            IF c.resp.status = 200 THEN c.err = NoErr
            ELSE IF IsJSON(c.resp.body)
            THEN /\ c.err.msg = "Failed to delete user"
                 /\ c.err.cause = <<MemberOf(c.resp.body, "error"), ": ",
                                    MemberOf(c.resp.body, "description")>>
            ELSE c.err.msg = InvalidJSONDeleteMessage

\* C14 (amended): DeleteUser returns nil after a response with status 200
\* whatever its body; after any other status it returns 'Failed to delete
\* user' around "{error}: {description}" when the body decodes as {error:
\* string, description: string}, and the 'invalid JSON' error for every other
\* body, malformed or well-formed JSON of another shape.
C14_DeleteUserResult ==
    \A t \in Threads :
        LET c == call[t] IN
        DeleteAnswered(c) =>
            IF c.resp.status = 200 THEN c.err = NoErr
            ELSE IF DecodesAsErrorResponse(c.resp.body)
            THEN /\ c.err.msg = "Failed to delete user"
                 /\ c.err.cause = <<MemberOf(c.resp.body, "error"), ": ",
                                    MemberOf(c.resp.body, "description")>>
            ELSE c.err.msg = InvalidJSONDeleteMessage

\* DeleteUser returned nil after a response with status 200 and a body that
\* is not JSON.
C14_Witness ==
    LET c == call["t1"] IN
    /\ DeleteAnswered(c)
    /\ c.resp.status = 200
    /\ c.resp.body = Body("malformed", <<>>)
    /\ c.err = NoErr

\* C15: for every user id GenerateToken accepts, the token it returns is
\* signed with the client's secret key and decodes to sub = the user id, iss =
\* "https://{instanceId}.pushnotifications.pusher.com" whatever the base
\* endpoint is, and exp = a reading of the clock + 24h.
C15_TokenClaims ==
    \A t \in Threads :
        LET c == call[t] IN
        (c.op = "GenerateToken" /\ c.pc = "returned" /\ c.err = NoErr) =>
            /\ Len(c.token) = 1
            /\ c.token[1].key = pn.SecretKey
            /\ c.token[1].sub = c.userId
            /\ c.token[1].iss = "https://" \o newCall.instanceId \o ".pushnotifications.pusher.com"
            /\ c.token[1].exp - 86400 \in Times

\* C16: no call ends in a panic, whatever its arguments (a nil request map
\* among them) and whatever the transport does.
C16_NoPanic ==
    \A t \in Threads : call[t].pc # "panicked"

\* C17: the request map a caller passes to a publish call has, during and
\* after the call, exactly the keys and values it had when the call was
\* entered.
C17_RequestMapUnchanged ==
    \A t \in Threads :
        LET c == call[t] IN
        (c.op \in PublishOps /\ c.req # NilMap) => c.before = <<heap[c.req]>>

\* The identifier list the body of a request carries under a key, as a set
\* of at most one value.
Carried(request, key) ==
    {request.body[i].value : i \in {j \in 1..Len(request.body) : request.body[j].key = key}}

\* C18: with two goroutines publishing in parallel through one client, on
\* distinct request maps or on the same one, the body of the request of each
\* call carries exactly the identifier list passed to that call, and no call
\* ends the process.
C18_ConcurrentCallsIndependent ==
    \A t \in Threads :
        LET c == call[t] IN
        /\ c.pc # "fatal"
        /\ (c.op \in PublishOps /\ c.sent # <<>>) =>
              Carried(c.sent[1], injectedKey(c.op)) = {jsonValue(Val("strings", c.ids))}

\* The positions of the options of one kind in the list given to New.
OptionsOf(kind) == {i \in 1..Len(newCall.options) : newCall.options[i].opt = kind}

\* The last position of a non-empty set of positions.
Last(S) == CHOOSE i \in S : \A j \in S : j <= i

\* C19: a client built by New has the base endpoint of the last
\* WithCustomBaseURL among its options, and without one the default
\* "https://{instanceId}.pushnotifications.pusher.com"; it has the timeout of
\* the last WithRequestTimeout among its options, and without one 60 seconds.
\* Each field depends on the options of its own kind only.
C19_OptionsInOrder ==
    pn # NoClient =>
        /\ Text(pn.baseEndpoint) =
             IF OptionsOf("WithCustomBaseURL") = {}
             THEN "https://" \o newCall.instanceId \o ".pushnotifications.pusher.com"
             ELSE Text(newCall.options[Last(OptionsOf("WithCustomBaseURL"))].url)
        /\ pn.Timeout =
             IF OptionsOf("WithRequestTimeout") = {}
             THEN 60
             ELSE newCall.options[Last(OptionsOf("WithRequestTimeout"))].timeout

\* New was given two different timeouts and the client has the second.
C19_Witness ==
    /\ pn # NoClient
    /\ Len(newCall.options) = 2
    /\ newCall.options[1].opt = "WithRequestTimeout"
    /\ newCall.options[2].opt = "WithRequestTimeout"
    /\ newCall.options[1].timeout # newCall.options[2].timeout
    /\ pn.Timeout = newCall.options[2].timeout

\* The URL the specification gives for the publish request of an operation.
ExpectedPublishURL(c, op) ==
    Text(c.baseEndpoint) \o "/publish_api/v1/instances/" \o c.InstanceId \o
        (IF op = "PublishToUsers" THEN "/publishes/users" ELSE "/publishes")

\* C20: whatever base endpoint the client was configured with, a '%' in it
\* included, the request of PublishToInterests is a POST to exactly
\* baseEndpoint + "/publish_api/v1/instances/" + instanceId + "/publishes" and
\* the request of PublishToUsers a POST to that URL followed by "/users".
C20_PublishURL ==
    \A t \in Threads :
        LET c == call[t] IN
        (c.op \in PublishOps /\ c.sent # <<>>) =>
            /\ c.sent[1].method = "POST"
            /\ Text(c.sent[1].url) = ExpectedPublishURL(pn, c.op)

\* C21: every request a call has issued, of PublishToInterests, Publish,
\* PublishToUsers or DeleteUser, has the three headers Authorization =
\* "Bearer " + the secret key the client was built with, Content-Type =
\* "application/json" and X-Pusher-Library = the name of the library and its
\* version.
C21_RequestHeaders ==
    \A t \in Threads :
        \A i \in 1..Len(call[t].sent) :
            LET h == call[t].sent[i].headers IN
            /\ DOMAIN h = {"Authorization", "ContentType", "XPusherLibrary"}
            /\ h.Authorization = "Bearer " \o newCall.secretKey
            /\ newCall.secretKey \in SecretKeys \ {""}
            /\ h.ContentType = "application/json"
            /\ h.XPusherLibrary = "pusher-push-notifications-go " \o sdkVersion

\* The request of a DeleteUser call through a client built with the secret
\* key k-789 is on its way, with that key in its Authorization header.
C21_Witness ==
    LET c == call["t1"] IN
    /\ c.op = "DeleteUser"
    /\ c.pc = "waiting"
    /\ Len(c.sent) = 1
    /\ newCall.secretKey = "k-789"
    /\ c.sent[1].headers.Authorization = "Bearer k-789"

\* The call repeats the one the caller remembers: same operation, same list,
\* same request map.
Repeats(c) ==
    /\ c.prev # <<>>
    /\ c.op = c.prev[1].op
    /\ c.ids = c.prev[1].ids
    /\ c.req = c.prev[1].req

\* C22: a publish call that fails validation leaves the request map as it was
\* when the call was entered (the key is written only when every rule has
\* passed), and a call that repeats a call that failed validation returns the
\* same error, again without a request.
C22_ValidationIsPure ==
    \A t \in Threads :
        LET c == call[t] IN
        c.op \in PublishOps =>
            /\ (Rejected(c) /\ c.req # NilMap) => c.before = <<heap[c.req]>>
            /\ (Repeats(c) /\ c.prev[1].err.msg \in ValidationMessages) =>
                  /\ c.pc = "returned"
                  /\ c.err = c.prev[1].err
                  /\ c.sent = <<>>

\* After calls that wrote into the map, a call with a list that fails
\* validation was made twice on that map and returned the same error twice.
C22_Witness ==
    LET c == call["t1"] IN
    /\ c.op = "PublishToInterests"
    /\ c.req = "m1"
    /\ "users" \in DOMAIN heap["m1"]
    /\ Repeats(c)
    /\ c.ids = << <<97>>, <<>> >>
    /\ c.pc = "returned"
    /\ c.err = c.prev[1].err
    /\ c.err.msg = "An empty interest name is not valid"
    /\ c.before = <<heap["m1"]>>

\* The publish call has passed validation with a request map and has written
\* its key into it.
Injected(c) ==
    /\ c.op \in PublishOps
    /\ c.req # NilMap
    /\ c.pc \in {"marshal", "waiting", "returned"}
    /\ ~Rejected(c)

IdentifierKeys == {"interests", "users"}

\* C23: once a publish call has passed validation with a map, the map holds
\* the key of the operation with the list of the call, during the rest of the
\* call and after every outcome of it; no step takes an identifier key out of
\* a map; and a call on a map that holds the key of the other operation sends
\* a body with both keys: the list of the earlier call and its own.
C23_InjectionPersists ==
    /\ [](\A t \in Threads :
            LET c == call[t] IN
            /\ Injected(c) =>
                 /\ injectedKey(c.op) \in DOMAIN heap[c.req]
                 /\ heap[c.req][injectedKey(c.op)] = Val("strings", c.ids)
            /\ (Injected(c) /\ c.sent # <<>>) =>
                 /\ Carried(c.sent[1], injectedKey(c.op)) = {jsonValue(Val("strings", c.ids))}
                 /\ \A k \in IdentifierKeys \cap DOMAIN c.before[1] :
                       k # injectedKey(c.op) =>
                          Carried(c.sent[1], k) = {jsonValue(c.before[1][k])})
    /\ [][\A m \in MapIds : IdentifierKeys \cap DOMAIN heap[m] \subseteq DOMAIN heap'[m]]_vars

\* A PublishToUsers call on a map that held the interests of an earlier call
\* has sent a body with the key interests and the key users.
C23_Witness ==
    LET c == call["t1"] IN
    /\ c.op = "PublishToUsers"
    /\ c.req = "m1"
    /\ c.pc = "waiting"
    /\ "interests" \in DOMAIN c.before[1]
    /\ Carried(c.sent[1], "interests") = {jsonValue(Val("strings", << <<97>> >>))}
    /\ Carried(c.sent[1], "users") = {jsonValue(Val("strings", << <<117>> >>))}

\* C24: every call that has issued its request eventually returns, whatever
\* timeout the client was configured with.
C24_EveryCallReturns ==
    \A t \in Threads : (call[t].pc = "waiting") ~> (call[t].pc = "returned")

============================================================================
